---- MODULE Spec2Model ----
(***************************************************************************)
(* Model of the Llama-API chat-completion adapter                          *)
(* (src/inference/providers/llama_api/chat_completion.py) and of the       *)
(* stream aggregation engine that drives it.                               *)
(*                                                                         *)
(* Vendor payloads are Python dicts.  A JSON value is a tagged record:     *)
(*   [t |-> "null"]            None                                        *)
(*   [t |-> "str",  v |-> s]   a str                                       *)
(*   [t |-> "int",  v |-> i]   an int                                      *)
(*   [t |-> "dict", v |-> f]   a dict, f a function from keys to values    *)
(*   [t |-> "list", v |-> q]   a list, q a sequence of values              *)
(* An operation that can raise returns a record whose exc field names the  *)
(* Python exception ("none" when it returns normally).                     *)
(***************************************************************************)
EXTENDS Integers, Sequences, FiniteSets, TLC

\* ------------------------------------------------------------------ bounds
MaxEvents == 3
MaxDeltas == 5
MaxEventsTwo == 2

\* ------------------------------------------------------- Python primitives
Null == [t |-> "null"]
Str(s) == [t |-> "str", v |-> s]
Num(i) == [t |-> "int", v |-> i]
Dict(d) == [t |-> "dict", v |-> d]
List(l) == [t |-> "list", v |-> l]
EmptyDict == Dict(<<>>)

\* bool(x)
Truthy(x) ==
    CASE x.t = "null" -> FALSE
      [] x.t = "str"  -> x.v # ""
      [] x.t = "int"  -> x.v # 0
      [] x.t = "dict" -> DOMAIN x.v # {}
      [] x.t = "list" -> Len(x.v) > 0

\* k in d
HasKey(d, k) == k \in DOMAIN d.v

\* d.get(k, default)
Get(d, k, default) == IF HasKey(d, k) THEN d.v[k] ELSE default

\* 1-based position of lst[i] for a Python list of length n, 0 when lst[i]
\* raises IndexError (a negative i counts from the end).
PyIndex(n, i) ==
    IF 0 <= i /\ i < n THEN i + 1
    ELSE IF i < 0 /\ -n <= i THEN n + i + 1
    ELSE 0

\* ------------------------------------------------------------ unified model
\* ChatCompletionFinishReason.__members__: the names of the closed enumeration.
ChatCompletionFinishReason == {"stop", "length", "function_calls", "content_filter", "unknown"}

\* ChatCompletionFunctionCallsContent(): the accumulator at stream start.
NewFunctionCallsContent == [index |-> -1, arguments_strs |-> <<>>, names |-> <<>>]

\* ChatCompletionChunk(created_timestamp, index, delta); the timestamp is the
\* wall clock and is left out.
ChatCompletionChunk(index, delta) == [kind |-> "text", index |-> index, delta |-> delta]

\* The instance attributes of the adapter after __init__ as a set of
\* <<name, value>> pairs: the constructor sets none.
NewAdapter == {}

\* ------------------------------------------------------- adapter operations
\* ChatCompletionFinishReason.__members__.get(reason, unknown).  The
\* enumeration is a str enum whose values are its names, so a member looks
\* itself up by name; None and any other string give the default.
MembersGet(reason) ==
    IF reason.t = "str" /\ reason.v \in ChatCompletionFinishReason THEN reason.v ELSE "unknown"

\* extract_finish_reason(data): never absent, the key defaults to "unknown".
\* Variant: the synonym "function_call" is not recognised.
extract_finish_reason_nosyn(data) ==
    LET finish_reason == Get(data, "finish_reason", Str("unknown"))
        r1 == IF finish_reason \in {Str("tool_calls"), Str("function_calls")}
              THEN Str("function_calls") ELSE finish_reason
        r2 == IF r1 = Str("max_token") THEN Str("length") ELSE r1
    IN  MembersGet(r2)

extract_finish_reason(data) ==
    LET finish_reason == Get(data, "finish_reason", Str("unknown"))
        r1 == IF finish_reason \in {Str("tool_calls"), Str("function_calls"), Str("function_call")}
              THEN Str("function_calls") ELSE finish_reason
        r2 == IF r1 = Str("max_token") THEN Str("length") ELSE r1
    IN  MembersGet(r2)

\* A Python bool in a payload.
Bool(b) == [t |-> "bool", v |-> b]

\* _build_llama_api_message(message) for a system message, a user message
\* with str content, an assistant text message and a function message; a
\* message is a record with role, content and id.
build_llama_api_message(message) ==
    IF message.role \in {"system", "user", "assistant"}
    THEN Dict([role |-> Str(message.role), content |-> Str(message.content)])
    ELSE Dict([role |-> Str("tool"), content |-> Str(message.content),
               tool_call_id |-> Str(message.id)])

\* ChatCompletionFunction.model_dump(): the definition's fields as a dict.
function_model_dump(f) ==
    Dict([name |-> Str(f.name), description |-> Str(f.description),
          parameters |-> Dict(f.parameters)])

\* _build_llama_api_chat_completion_payload(...).  configs is the
\* configuration's model_dump(): option name -> value, None when unset.
\* Variant: an option is sent only when its value is truthy.
build_llama_api_chat_completion_payload_truthy(messages, stream, provider_model_id, configs, function_call, functions) ==
    LET formatted_messages == List([i \in 1..Len(messages) |-> build_llama_api_message(messages[i])])
        base == [messages |-> formatted_messages, model |-> Str(provider_model_id),
                 stream |-> Bool(stream)]
        set == {key \in DOMAIN configs : Truthy(configs[key])}
        keys == DOMAIN base \cup set
                  \cup (IF Truthy(function_call) THEN {"function_call"} ELSE {})
                  \cup (IF Truthy(functions) THEN {"functions"} ELSE {})
    IN  Dict([key \in keys |->
                IF key = "functions" /\ Truthy(functions)
                THEN List([i \in 1..Len(functions.v) |-> function_model_dump(functions.v[i])])
                ELSE IF key = "function_call" /\ Truthy(function_call)
                THEN Dict([name |-> function_call])
                ELSE IF key \in set THEN configs[key]
                ELSE base[key]])

\* Variant: the function_call directive is sent as it came, not as {"name": ...}.
build_llama_api_chat_completion_payload_bare(messages, stream, provider_model_id, configs, function_call, functions) ==
    LET formatted_messages == List([i \in 1..Len(messages) |-> build_llama_api_message(messages[i])])
        base == [messages |-> formatted_messages, model |-> Str(provider_model_id),
                 stream |-> Bool(stream)]
        set == {key \in DOMAIN configs : configs[key] # Null}
        keys == DOMAIN base \cup set
                  \cup (IF Truthy(function_call) THEN {"function_call"} ELSE {})
                  \cup (IF Truthy(functions) THEN {"functions"} ELSE {})
    IN  Dict([key \in keys |->
                IF key = "functions" /\ Truthy(functions)
                THEN List([i \in 1..Len(functions.v) |-> function_model_dump(functions.v[i])])
                ELSE IF key = "function_call" /\ Truthy(function_call)
                THEN function_call
                ELSE IF key \in set THEN configs[key]
                ELSE base[key]])

build_llama_api_chat_completion_payload(messages, stream, provider_model_id, configs, function_call, functions) ==
    LET formatted_messages == List([i \in 1..Len(messages) |-> build_llama_api_message(messages[i])])
        base == [messages |-> formatted_messages, model |-> Str(provider_model_id),
                 stream |-> Bool(stream)]
        set == {key \in DOMAIN configs : configs[key] # Null}
        keys == DOMAIN base \cup set
                  \cup (IF Truthy(function_call) THEN {"function_call"} ELSE {})
                  \cup (IF Truthy(functions) THEN {"functions"} ELSE {})
    IN  Dict([key \in keys |->
                IF key = "functions" /\ Truthy(functions)
                THEN List([i \in 1..Len(functions.v) |-> function_model_dump(functions.v[i])])
                ELSE IF key = "function_call" /\ Truthy(function_call)
                THEN Dict([name |-> function_call])
                ELSE IF key \in set THEN configs[key]
                ELSE base[key]])

\* prepare_request(...): the endpoint and the payload (the headers are built
\* from the credentials alone).
prepare_request(r) ==
    [api_url |-> "https://api.llama-api.com/chat/completions",
     payload |-> build_llama_api_chat_completion_payload(
                    r.messages, r.stream, r.provider_model_id, r.configs,
                    r.function_call, r.functions)]

\* extract_core_data(response_data): choices[0], or None.
\* Variant: only a missing choices key gives None.
extract_core_data_first(response_data) ==
    IF ~HasKey(response_data, "choices") THEN [exc |-> "none", val |-> Null]
    ELSE IF response_data.v["choices"].t # "list" THEN [exc |-> "TypeError", val |-> Null]
    ELSE IF Len(response_data.v["choices"].v) = 0 THEN [exc |-> "IndexError", val |-> Null]
    ELSE [exc |-> "none", val |-> response_data.v["choices"].v[1]]

extract_core_data(response_data) ==
    IF ~Truthy(Get(response_data, "choices", Null)) THEN [exc |-> "none", val |-> Null]
    ELSE [exc |-> "none", val |-> response_data.v["choices"].v[1]]

\* extract_text_content(data): the message's content, or None.
extract_text_content(data) ==
    LET message_data == IF Truthy(data) THEN Get(data, "message", Null) ELSE Null
    IN  IF Truthy(message_data) /\ Truthy(Get(message_data, "content", Null))
        THEN [exc |-> "none", val |-> message_data.v["content"]]
        ELSE [exc |-> "none", val |-> Null]

\* build_function_call(name, arguments_dict): the unified function call.
build_function_call(name, arguments_dict) == [name |-> name, arguments |-> arguments_dict]

\* extract_function_calls(data): a one-element list of function calls, or
\* None.  message_data.get raises AttributeError when message_data is None.
extract_function_calls(data) ==
    LET message_data == IF Truthy(data) THEN Get(data, "message", Null) ELSE Null
    IN  IF message_data.t # "dict" THEN [exc |-> "AttributeError", val |-> Null]
        ELSE IF Truthy(Get(message_data, "function_call", Null))
        THEN LET function_call_dict == message_data.v["function_call"]
             IN  IF ~HasKey(function_call_dict, "name") \/ ~HasKey(function_call_dict, "arguments")
                 THEN [exc |-> "KeyError", val |-> Null]
                 ELSE [exc |-> "none",
                       val |-> List(<<build_function_call(function_call_dict.v["name"],
                                                          function_call_dict.v["arguments"])>>)]
        ELSE [exc |-> "none", val |-> Null]

\* The non-stream extractor: the empty unified result when extract_core_data
\* gives None, else the text, the function calls and the finish reason of the
\* record; an exception of an adapter operation is the result's exc.
EmptyResult ==
    [exc |-> "none", text |-> Null, function_calls |-> Null, finish_reason |-> "unknown"]

Failure(exc) == [exc |-> exc, text |-> Null, function_calls |-> Null, finish_reason |-> "unknown"]

Extractor(response_data) ==
    LET core == extract_core_data(response_data)
        text == extract_text_content(core.val)
        calls == extract_function_calls(core.val)
    IN  IF core.exc # "none" THEN Failure(core.exc)
        ELSE IF core.val = Null THEN EmptyResult
        ELSE IF text.exc # "none" THEN Failure(text.exc)
        ELSE IF calls.exc # "none" THEN Failure(calls.exc)
        ELSE [exc |-> "none", text |-> text.val, function_calls |-> calls.val,
              finish_reason |-> extract_finish_reason(core.val)]

\* stream_check_error(sse_data): TRUE when it raises the provider error.
\* Variant: the error payload is never raised.
stream_check_error_silent(sse_data) == FALSE

stream_check_error(sse_data) == Truthy(Get(sse_data, "error", Null))

\* stream_extract_chunk_data(sse_data): choices[0], or None.
stream_extract_chunk_data(sse_data) ==
    IF ~Truthy(Get(sse_data, "choices", Null)) THEN Null
    ELSE sse_data.v["choices"].v[1]

\* stream_extract_chunk(index, chunk_data, text_content) -> (index, chunk).
\* exc is "AttributeError" when delta is present but None.
\* Variant: the index advances on every event.
stream_extract_chunk_always(self, index, chunk_data) ==
    LET delta == IF Truthy(chunk_data) THEN Get(chunk_data, "delta", EmptyDict) ELSE EmptyDict
        content == IF delta.t = "dict" THEN Get(delta, "content", Null) ELSE Null
    IN  IF Truthy(chunk_data) /\ delta.t # "dict"
        THEN [exc |-> "AttributeError", self |-> self, index |-> index, chunk |-> Null]
        ELSE IF Truthy(content)
        THEN [exc |-> "none", self |-> self, index |-> index + 1,
              chunk |-> ChatCompletionChunk(index, content.v)]
        ELSE [exc |-> "none", self |-> self, index |-> index + 1, chunk |-> Null]

\* Variant: the index counter is kept on the adapter instance.
stream_extract_chunk_shared(self, index, chunk_data) ==
    LET delta == IF Truthy(chunk_data) THEN Get(chunk_data, "delta", EmptyDict) ELSE EmptyDict
        content == IF delta.t = "dict" THEN Get(delta, "content", Null) ELSE Null
        mine == IF \E p \in self : p[1] = "index"
                THEN (CHOOSE p \in self : p[1] = "index")[2] ELSE index
    IN  IF Truthy(chunk_data) /\ delta.t # "dict"
        THEN [exc |-> "AttributeError", self |-> self, index |-> index, chunk |-> Null]
        ELSE IF Truthy(content)
        THEN [exc |-> "none", self |-> {<<"index", mine + 1>>}, index |-> mine + 1,
              chunk |-> ChatCompletionChunk(mine, content.v)]
        ELSE [exc |-> "none", self |-> self, index |-> index, chunk |-> Null]

stream_extract_chunk(self, index, chunk_data) ==
    LET delta == IF Truthy(chunk_data) THEN Get(chunk_data, "delta", EmptyDict) ELSE EmptyDict
        content == IF delta.t = "dict" THEN Get(delta, "content", Null) ELSE Null
    IN  IF Truthy(chunk_data) /\ delta.t # "dict"
        THEN [exc |-> "AttributeError", self |-> self, index |-> index, chunk |-> Null]
        ELSE IF Truthy(content)
        THEN [exc |-> "none", self |-> self, index |-> index + 1,
              chunk |-> ChatCompletionChunk(index, content.v)]
        ELSE [exc |-> "none", self |-> self, index |-> index, chunk |-> Null]

\* stream_extract_finish_reason(chunk_data): a member name, or "" for None.
\* Variant: "max_token" is not mapped to length.
stream_extract_finish_reason_nomax(chunk_data) ==
    LET reason == Get(chunk_data, "finish_reason", Null)
        r1 == IF reason \in {Str("tool_calls"), Str("function_calls"), Str("function_call")}
              THEN Str("function_calls") ELSE reason
    IN  IF ~Truthy(reason) THEN "" ELSE MembersGet(r1)

\* Variant: an unrecognised reason is returned as it came.
stream_extract_finish_reason_raw(chunk_data) ==
    LET reason == Get(chunk_data, "finish_reason", Null)
        r1 == IF reason \in {Str("tool_calls"), Str("function_calls"), Str("function_call")}
              THEN Str("function_calls") ELSE reason
        r2 == IF r1 = Str("max_token") THEN Str("length") ELSE r1
    IN  IF ~Truthy(reason) THEN "" ELSE r2.v

stream_extract_finish_reason(chunk_data) ==
    LET reason == Get(chunk_data, "finish_reason", Null)
        r1 == IF reason \in {Str("tool_calls"), Str("function_calls"), Str("function_call")}
              THEN Str("function_calls") ELSE reason
        r2 == IF r1 = Str("max_token") THEN Str("length") ELSE r1
    IN  IF ~Truthy(reason) THEN "" ELSE MembersGet(r2)

\* stream_handle_function_calls(chunk_data, function_calls_content).
\* ret is "None" or "acc"; acc is the accumulator object after the call, which
\* is mutated in place and so keeps a partial update when the call raises.
\* Variant: a continuing fragment replaces the buffer instead of extending it.
stream_handle_function_calls_overwrite(self, chunk_data, fcc) ==
    LET delta == Get(chunk_data, "delta", EmptyDict)
        R(exc, ret, a) == [exc |-> exc, ret |-> ret, acc |-> a, self |-> self]
    IN  IF ~(Truthy(delta) /\ Truthy(Get(delta, "tool_calls", Null)))
        THEN R("none", "None", fcc)
        ELSE LET tool_call == delta.v["tool_calls"].v[1] IN
        IF ~HasKey(tool_call, "index") \/ ~HasKey(tool_call, "function")
        THEN R("KeyError", "", fcc)
        ELSE LET toll_call_index == tool_call.v["index"]
                 tool_call_function == tool_call.v["function"]
                 pos == PyIndex(Len(fcc.arguments_strs), fcc.index)
             IN
        IF toll_call_index = Num(fcc.index)
        THEN IF pos = 0 THEN R("IndexError", "", fcc)
             ELSE IF tool_call_function.t # "dict" THEN R("TypeError", "", fcc)
             ELSE IF ~HasKey(tool_call_function, "arguments") THEN R("KeyError", "", fcc)
             ELSE IF tool_call_function.v["arguments"].t # "str" THEN R("TypeError", "", fcc)
             ELSE R("none", "acc",
                    [fcc EXCEPT !.arguments_strs[pos] = tool_call_function.v["arguments"].v])
        ELSE IF toll_call_index.t # "int" THEN R("TypeError", "", fcc)
        ELSE IF toll_call_index.v > fcc.index
        THEN IF tool_call_function.t # "dict" THEN R("TypeError", "", fcc)
             ELSE IF ~HasKey(tool_call_function, "arguments") THEN R("KeyError", "", fcc)
             ELSE LET arguments == tool_call_function.v["arguments"]
                      appended == [fcc EXCEPT !.arguments_strs =
                                     Append(@, IF Truthy(arguments) THEN arguments.v ELSE "")]
                  IN  IF ~HasKey(tool_call_function, "name") THEN R("KeyError", "", appended)
                      ELSE R("none", "acc",
                             [appended EXCEPT !.names = Append(@, tool_call_function.v["name"]),
                                              !.index = toll_call_index.v])
        ELSE R("none", "acc", fcc)

\* Variant: every index other than the current one opens a new call.
stream_handle_function_calls_reopen(self, chunk_data, fcc) ==
    LET delta == Get(chunk_data, "delta", EmptyDict)
        R(exc, ret, a) == [exc |-> exc, ret |-> ret, acc |-> a, self |-> self]
    IN  IF ~(Truthy(delta) /\ Truthy(Get(delta, "tool_calls", Null)))
        THEN R("none", "None", fcc)
        ELSE LET tool_call == delta.v["tool_calls"].v[1] IN
        IF ~HasKey(tool_call, "index") \/ ~HasKey(tool_call, "function")
        THEN R("KeyError", "", fcc)
        ELSE LET toll_call_index == tool_call.v["index"]
                 tool_call_function == tool_call.v["function"]
                 pos == PyIndex(Len(fcc.arguments_strs), fcc.index)
             IN
        IF toll_call_index = Num(fcc.index)
        THEN IF pos = 0 THEN R("IndexError", "", fcc)
             ELSE IF tool_call_function.t # "dict" THEN R("TypeError", "", fcc)
             ELSE IF ~HasKey(tool_call_function, "arguments") THEN R("KeyError", "", fcc)
             ELSE IF tool_call_function.v["arguments"].t # "str" THEN R("TypeError", "", fcc)
             ELSE R("none", "acc",
                    [fcc EXCEPT !.arguments_strs[pos] = @ \o tool_call_function.v["arguments"].v])
        ELSE IF toll_call_index.t # "int" THEN R("TypeError", "", fcc)
        ELSE IF tool_call_function.t # "dict" THEN R("TypeError", "", fcc)
        ELSE IF ~HasKey(tool_call_function, "arguments") THEN R("KeyError", "", fcc)
        ELSE LET arguments == tool_call_function.v["arguments"]
                 appended == [fcc EXCEPT !.arguments_strs =
                                Append(@, IF Truthy(arguments) THEN arguments.v ELSE "")]
             IN  IF ~HasKey(tool_call_function, "name") THEN R("KeyError", "", appended)
                 ELSE R("none", "acc",
                        [appended EXCEPT !.names = Append(@, tool_call_function.v["name"]),
                                         !.index = toll_call_index.v])

stream_handle_function_calls(self, chunk_data, fcc) ==
    LET delta == Get(chunk_data, "delta", EmptyDict)
        R(exc, ret, a) == [exc |-> exc, ret |-> ret, acc |-> a, self |-> self]
    IN  IF ~(Truthy(delta) /\ Truthy(Get(delta, "tool_calls", Null)))
        THEN R("none", "None", fcc)
        ELSE LET tool_call == delta.v["tool_calls"].v[1] IN
        IF ~HasKey(tool_call, "index") \/ ~HasKey(tool_call, "function")
        THEN R("KeyError", "", fcc)
        ELSE LET toll_call_index == tool_call.v["index"]
                 tool_call_function == tool_call.v["function"]
                 pos == PyIndex(Len(fcc.arguments_strs), fcc.index)
             IN
        IF toll_call_index = Num(fcc.index)
        THEN \* append to the current function call argument string
             IF pos = 0 THEN R("IndexError", "", fcc)
             ELSE IF tool_call_function.t # "dict" THEN R("TypeError", "", fcc)
             ELSE IF ~HasKey(tool_call_function, "arguments") THEN R("KeyError", "", fcc)
             ELSE IF tool_call_function.v["arguments"].t # "str" THEN R("TypeError", "", fcc)
             ELSE R("none", "acc",
                    [fcc EXCEPT !.arguments_strs[pos] = @ \o tool_call_function.v["arguments"].v])
        ELSE IF toll_call_index.t # "int" THEN R("TypeError", "", fcc)
        ELSE IF toll_call_index.v > fcc.index
        THEN \* trigger another function call
             IF tool_call_function.t # "dict" THEN R("TypeError", "", fcc)
             ELSE IF ~HasKey(tool_call_function, "arguments") THEN R("KeyError", "", fcc)
             ELSE LET arguments == tool_call_function.v["arguments"]
                      appended == [fcc EXCEPT !.arguments_strs =
                                     Append(@, IF Truthy(arguments) THEN arguments.v ELSE "")]
                  IN  IF ~HasKey(tool_call_function, "name") THEN R("KeyError", "", appended)
                      ELSE R("none", "acc",
                             [appended EXCEPT !.names = Append(@, tool_call_function.v["name"]),
                                              !.index = toll_call_index.v])
        ELSE R("none", "acc", fcc)

\* ------------------------------------------------ stream aggregation engine
\* Accumulator finalize rule: one function call per index, in ascending
\* index order, each built from one name and one argument buffer.
Min(a, b) == IF a < b THEN a ELSE b

Finalize(fcc) ==
    [i \in 1..Min(Len(fcc.arguments_strs), Len(fcc.names)) |->
        [name |-> fcc.names[i], arguments |-> fcc.arguments_strs[i]]]

\* The terminal chunk: the finish reason and, when the reason is
\* function_calls, the assembled calls.
TerminalChunk(finish_reason, fcc) ==
    [kind |-> "terminal", finish_reason |-> finish_reason,
     function_calls |-> IF finish_reason = "function_calls" THEN Finalize(fcc) ELSE <<>>]

\* The state of one stream at its start: OPEN, index 0, a fresh accumulator,
\* nothing emitted, no event consumed.
NewStream ==
    [status |-> "OPEN", index |-> 0, acc |-> NewFunctionCallsContent, out |-> <<>>,
     events |-> <<>>]

\* The transition on one incoming event, steps 1 to 5.  adapter is the adapter
\* instance, s the stream's state, id the name of the event and ev the event.
\* An exception that escapes an adapter operation ends the stream as FAILED;
\* what was emitted before it stays emitted.
DriverStep(adapter, s, id, ev) ==
    LET seen == [s EXCEPT !.events = Append(@, id)]
        chunk_data == stream_extract_chunk_data(ev)
        c == stream_extract_chunk(adapter, s.index, chunk_data)
        emitted == [seen EXCEPT !.index = c.index,
                                !.out = IF c.chunk = Null THEN @ ELSE Append(@, c.chunk)]
        f == stream_handle_function_calls(c.self, chunk_data, s.acc)
        buffered == [emitted EXCEPT !.acc = f.acc]
        finish_reason == stream_extract_finish_reason(chunk_data)
    IN  IF stream_check_error(ev)
        THEN [adapter |-> adapter, s |-> [seen EXCEPT !.status = "FAILED"]]
        ELSE IF chunk_data = Null
        THEN [adapter |-> adapter, s |-> seen]
        ELSE IF c.exc # "none"
        THEN [adapter |-> c.self, s |-> [seen EXCEPT !.status = "FAILED"]]
        ELSE IF f.exc # "none"
        THEN [adapter |-> f.self, s |-> [buffered EXCEPT !.status = "FAILED"]]
        ELSE IF finish_reason # ""
        THEN [adapter |-> f.self,
              s |-> [buffered EXCEPT !.status = "CLOSED",
                                     !.out = Append(@, TerminalChunk(finish_reason, f.acc))]]
        ELSE [adapter |-> f.self, s |-> buffered]

\* The event source is exhausted with no finish reason seen: the stream
\* closes, the accumulator is finalized and the terminal chunk carries unknown.
DriverEnd(s) ==
    [s EXCEPT !.status = "CLOSED", !.out = Append(@, TerminalChunk("unknown", s.acc))]
\* ------------------------------------------------------------ event shapes
\* Builders for vendor events.
ToolCall(index, name, arguments) ==
    Dict([index |-> Num(index), function |-> Dict([name |-> name, arguments |-> arguments])])

Choice(chunk_data) == Dict([choices |-> List(<<chunk_data>>)])

ErrorPayload == Dict([message |-> Str("boom")])

Entry(index, frag) == [index |-> index, frag |-> frag]

\* What an event is, next to the event itself: text is the non-empty text
\* delta it carries ("" when none), error whether it carries an upstream error
\* payload, calls the <<index, fragment>> of each tool-call entry it carries
\* in order (an entry whose arguments are null carries the fragment "").
Shape(ev, text, error, calls) == [ev |-> ev, text |-> text, error |-> error, calls |-> calls]

EventTable ==
    [heartbeat |-> Shape(EmptyDict, "", FALSE, <<>>),
     no_choice |-> Shape(Dict([choices |-> List(<<>>)]), "", FALSE, <<>>),
     text_Hel |-> Shape(Choice(Dict([delta |-> Dict([content |-> Str("Hel")])])), "Hel", FALSE, <<>>),
     text_lo |-> Shape(Choice(Dict([delta |-> Dict([content |-> Str("lo")])])), "lo", FALSE, <<>>),
     text_empty |-> Shape(Choice(Dict([delta |-> Dict([content |-> Str("")])])), "", FALSE, <<>>),
     no_delta |-> Shape(Choice(Dict([index |-> Num(0)])), "", FALSE, <<>>),
     null_delta |-> Shape(Choice(Dict([delta |-> Null])), "", FALSE, <<>>),
     error |-> Shape(Dict([error |-> ErrorPayload]), "", TRUE, <<>>),
     error_null |->
        Shape(Dict([error |-> Null,
                    choices |-> List(<<Dict([delta |-> Dict([content |-> Str("lo")])])>>)]),
              "lo", FALSE, <<>>),
     error_full |->
        Shape(Dict([error |-> ErrorPayload,
                    choices |-> List(<<Dict([delta |-> Dict([content |-> Str("Hel"),
                                                            tool_calls |-> List(<<ToolCall(0, Str("f"), Str("a"))>>)]),
                                             finish_reason |-> Str("stop")])>>)]),
              "Hel", TRUE, <<Entry(0, "a")>>),
     fin_max_token |-> Shape(Choice(Dict([finish_reason |-> Str("max_token")])), "", FALSE, <<>>),
     fin_stop |-> Shape(Choice(Dict([delta |-> EmptyDict, finish_reason |-> Str("stop")])), "", FALSE, <<>>),
     fin_tool_calls |-> Shape(Choice(Dict([finish_reason |-> Str("tool_calls")])), "", FALSE, <<>>),
     fin_weird |-> Shape(Choice(Dict([finish_reason |-> Str("eos")])), "", FALSE, <<>>),
     fin_empty |-> Shape(Choice(Dict([finish_reason |-> Str("")])), "", FALSE, <<>>),
     text_lo_stop |->
        Shape(Choice(Dict([delta |-> Dict([content |-> Str("lo")]), finish_reason |-> Str("stop")])),
              "lo", FALSE, <<>>),
     call0_open |->
        Shape(Choice(Dict([delta |-> Dict([tool_calls |-> List(<<ToolCall(0, Str("f"), Str("a"))>>)])])),
              "", FALSE, <<Entry(0, "a")>>),
     call0_more |->
        Shape(Choice(Dict([delta |-> Dict([tool_calls |-> List(<<ToolCall(0, Null, Str("b"))>>)])])),
              "", FALSE, <<Entry(0, "b")>>),
     call1_open |->
        Shape(Choice(Dict([delta |-> Dict([tool_calls |-> List(<<ToolCall(1, Str("g"), Str(""))>>)])])),
              "", FALSE, <<Entry(1, "")>>),
     call1_more |->
        Shape(Choice(Dict([delta |-> Dict([tool_calls |-> List(<<ToolCall(1, Null, Str("c"))>>)])])),
              "", FALSE, <<Entry(1, "c")>>),
     call_two |->
        Shape(Choice(Dict([delta |-> Dict([tool_calls |->
                List(<<ToolCall(0, Str("f"), Str("a")), ToolCall(1, Str("g"), Str("b"))>>)])])),
              "", FALSE, <<Entry(0, "a"), Entry(1, "b")>>),
     call_no_index |->
        Shape(Choice(Dict([delta |-> Dict([tool_calls |->
                List(<<Dict([function |-> Dict([name |-> Str("f"), arguments |-> Str("a")])])>>)])])),
              "", FALSE, <<>>),
     call_no_function |->
        Shape(Choice(Dict([delta |-> Dict([tool_calls |-> List(<<Dict([index |-> Num(0)])>>)])])),
              "", FALSE, <<>>),
     call_no_name |->
        Shape(Choice(Dict([delta |-> Dict([tool_calls |->
                List(<<Dict([index |-> Num(0), function |-> Dict([arguments |-> Str("a")])])>>)])])),
              "", FALSE, <<Entry(0, "a")>>),
     call_null_args |->
        Shape(Choice(Dict([delta |-> Dict([tool_calls |-> List(<<ToolCall(0, Str("f"), Null)>>)])])),
              "", FALSE, <<Entry(0, "")>>),
     call_no_args |->
        Shape(Choice(Dict([delta |-> Dict([tool_calls |->
                List(<<Dict([index |-> Num(0), function |-> Dict([name |-> Str("f")])])>>)])])),
              "", FALSE, <<>>)]

EventNames == DOMAIN EventTable

\* ---------------------------------------------------- collection service
\* The ids the store layer hands out, in the order it hands them out.
CollSeq == <<"c1", "c2">>

CollIds == {CollSeq[i] : i \in 1..Len(CollSeq)}

EmptyStore == [k \in {} |-> Null]

\* The models get_model can return: model_schema() gives the type and the
\* properties.
ModelTable ==
    [m_embed      |-> [type |-> "TEXT_EMBEDDING", properties |-> Dict([embedding_size |-> Num(3)])],
     m_embed_wide |-> [type |-> "TEXT_EMBEDDING", properties |-> Dict([embedding_size |-> Num(7)])],
     m_embed_zero |-> [type |-> "TEXT_EMBEDDING", properties |-> Dict([embedding_size |-> Num(0)])],
     m_embed_null |-> [type |-> "TEXT_EMBEDDING", properties |-> Dict([embedding_size |-> Null])],
     m_embed_bare |-> [type |-> "TEXT_EMBEDDING", properties |-> EmptyDict],
     m_chat       |-> [type |-> "CHAT_COMPLETION", properties |-> EmptyDict],
     m_chat_sized |-> [type |-> "CHAT_COMPLETION", properties |-> Dict([embedding_size |-> Num(3)])]]

get_model(model_id) == ModelTable[model_id]

\* What a service call gives: the error raised ("none" when it returns), the
\* value returned, the store afterwards and the store-layer calls it made.
Svc(exc, val, db, calls) == [exc |-> exc, val |-> val, db |-> db, calls |-> calls]

\* raise_http_error(code): the call ends with the error, the store as it is.
raise_http_error(code, db, calls) == Svc(code, Null, db, calls)

\* db_collection.get_collection: the collection, or None.
db_get_collection(db, collection_id) ==
    IF collection_id \in DOMAIN db THEN db[collection_id] ELSE Null

\* db_collection.create_collection: a new collection under the next free id.
db_create_collection(db, name, description, capacity, embedding_model_id, embedding_size, text_splitter, metadata) ==
    LET i == CHOOSE i \in 1..Len(CollSeq) :
                 /\ CollSeq[i] \notin DOMAIN db
                 /\ \A j \in 1..Len(CollSeq) : CollSeq[j] \notin DOMAIN db => i <= j
        collection == [collection_id |-> CollSeq[i], name |-> name, description |-> description,
                       capacity |-> capacity, embedding_model_id |-> embedding_model_id,
                       embedding_size |-> embedding_size, text_splitter |-> text_splitter,
                       metadata |-> metadata]
    IN  [db |-> [k \in DOMAIN db \cup {CollSeq[i]} |-> IF k = CollSeq[i] THEN collection ELSE db[k]],
         val |-> collection]

\* db_collection.update_collection: the fields of update_dict replace the
\* collection's.
db_update_collection(db, collection, update_dict) ==
    LET updated == [f \in DOMAIN collection |->
                       IF f \in DOMAIN update_dict THEN update_dict[f] ELSE collection[f]]
    IN  IF collection = Null THEN [db |-> db, val |-> Null]
        ELSE [db |-> [db EXCEPT ![collection.collection_id] = updated], val |-> updated]

\* db_collection.delete_collection.
db_delete_collection(db, collection) ==
    IF collection = Null THEN db
    ELSE [k \in DOMAIN db \ {collection.collection_id} |-> db[k]]

\* db_collection.list_collections: the collections in id order, after the
\* one cursor and before the other.
db_list_collections(db, after_collection, before_collection) ==
    LET Pos(id) == CHOOSE i \in 1..Len(CollSeq) : CollSeq[i] = id
        keep(i) == /\ CollSeq[i] \in DOMAIN db
                   /\ after_collection # Null => i > Pos(after_collection.collection_id)
                   /\ before_collection # Null => i < Pos(before_collection.collection_id)
        F[i \in 0..Len(CollSeq)] ==
            IF i = 0 THEN <<>>
            ELSE IF keep(i) THEN Append(F[i - 1], db[CollSeq[i]]) ELSE F[i - 1]
    IN  F[Len(CollSeq)]

\* Variant: a missing collection is returned as None instead of raising.
validate_and_get_collection_lenient(db, collection_id) ==
    LET collection == db_get_collection(db, collection_id)
    IN  Svc("none", collection, db, <<"get_collection">>)

validate_and_get_collection(db, collection_id) ==
    LET collection == db_get_collection(db, collection_id)
    IN  IF collection = Null
        THEN raise_http_error("OBJECT_NOT_FOUND", db, <<"get_collection">>)
        ELSE Svc("none", collection, db, <<"get_collection">>)

list_collections(db, after, before) ==
    LET a == IF Truthy(after) THEN validate_and_get_collection(db, after.v)
             ELSE Svc("none", Null, db, <<>>)
        b == IF Truthy(before) THEN validate_and_get_collection(db, before.v)
             ELSE Svc("none", Null, db, <<>>)
    IN  IF a.exc # "none" THEN a
        ELSE IF b.exc # "none" THEN Svc(b.exc, Null, db, a.calls \o b.calls)
        ELSE Svc("none", db_list_collections(db, a.val, b.val), db,
                 a.calls \o b.calls \o <<"list_collections">>)

\* Variant: the embedding size is not looked at.
create_collection_unsized(db, name, description, capacity, embedding_model_id, text_splitter, metadata) ==
    LET model_schema == get_model(embedding_model_id)
        embedding_size == Get(model_schema.properties, "embedding_size", Null)
        made == db_create_collection(db, name, description, capacity, embedding_model_id,
                                     embedding_size, text_splitter, metadata)
    IN  IF model_schema.type # "TEXT_EMBEDDING"
        THEN raise_http_error("REQUEST_VALIDATION_ERROR", db, <<>>)
        ELSE Svc("none", made.val, made.db, <<"create_collection">>)

create_collection(db, name, description, capacity, embedding_model_id, text_splitter, metadata) ==
    LET model_schema == get_model(embedding_model_id)
        embedding_size == Get(model_schema.properties, "embedding_size", Null)
        made == db_create_collection(db, name, description, capacity, embedding_model_id,
                                     embedding_size, text_splitter, metadata)
    IN  IF model_schema.type # "TEXT_EMBEDDING"
        THEN raise_http_error("REQUEST_VALIDATION_ERROR", db, <<>>)
        ELSE IF ~Truthy(embedding_size)
        THEN raise_http_error("REQUEST_VALIDATION_ERROR", db, <<>>)
        ELSE Svc("none", made.val, made.db, <<"create_collection">>)

\* Variant: a field is updated whenever it is not None.
update_collection_notnone(db, collection_id, name, description, metadata) ==
    LET got == validate_and_get_collection(db, collection_id)
        keys == (IF name # Null THEN {"name"} ELSE {})
                  \cup (IF description # Null THEN {"description"} ELSE {})
                  \cup (IF metadata # Null THEN {"metadata"} ELSE {})
        update_dict == [k \in keys |-> CASE k = "name" -> name
                                         [] k = "description" -> description
                                         [] k = "metadata" -> metadata]
        done == db_update_collection(db, got.val, update_dict)
    IN  IF got.exc # "none" THEN got
        ELSE IF keys # {}
        THEN Svc("none", done.val, done.db, got.calls \o <<"update_collection">>)
        ELSE got

update_collection(db, collection_id, name, description, metadata) ==
    LET got == validate_and_get_collection(db, collection_id)
        keys == (IF Truthy(name) THEN {"name"} ELSE {})
                  \cup (IF Truthy(description) THEN {"description"} ELSE {})
                  \cup (IF Truthy(metadata) THEN {"metadata"} ELSE {})
        update_dict == [k \in keys |-> CASE k = "name" -> name
                                         [] k = "description" -> description
                                         [] k = "metadata" -> metadata]
        done == db_update_collection(db, got.val, update_dict)
    IN  IF got.exc # "none" THEN got
        ELSE IF keys # {}
        THEN Svc("none", done.val, done.db, got.calls \o <<"update_collection">>)
        ELSE got

get_collection(db, collection_id) == validate_and_get_collection(db, collection_id)

delete_collection(db, collection_id) ==
    LET got == validate_and_get_collection(db, collection_id)
    IN  IF got.exc # "none" THEN got
        ELSE Svc("none", Null, db_delete_collection(db, got.val),
                 got.calls \o <<"delete_collection">>)

\* ------------------------------------------------------------------- state
VARIABLES
    adapter,    \* the adapter instance's attributes
    status,     \* the stream: "OPEN", "CLOSED" or "FAILED"
    index,      \* the stream's index counter
    acc,        \* the stream's function-calls accumulator
    out,        \* the chunks emitted to the caller, in order
    events,     \* the names of the events consumed, in arrival order
    function_calls_content, \* an accumulator stream_handle_function_calls is applied to
    deltas,     \* the names of the chunk records applied to it, in order
    before,     \* the accumulator before the last application
    ret,        \* the last application: "None", "acc" or the exception raised
    streams,    \* two streams served by the one adapter: 1..2 -> stream state
    data,       \* a non-stream choice record given to extract_finish_reason
    chunk_data, \* a stream chunk record given to stream_extract_finish_reason
    results,    \* <<>>, then the pair of finish reasons classified
    responses,  \* the non-stream vendor responses extracted so far, in order
    extracted,  \* the unified result (or the exception) of each of them
    request,    \* the arguments of a prepare_request call
    payload,    \* None, then the payload built for them
    store,      \* the collection store: collection id -> stored collection
    last,       \* the last collection-service call, its outcome and store calls
    nops        \* the number of collection-service calls made

streamVars == <<status, index, acc, out, events>>

accVars == <<function_calls_content, deltas, before, ret>>

twoVars == <<streams>>

finVars == <<data, chunk_data, results>>

nonVars == <<responses, extracted>>

payVars == <<request, payload>>

collVars == <<store, last, nops>>

restVars == <<nonVars, payVars, collVars>>

vars == <<adapter, streamVars, accVars, twoVars, finVars, restVars>>

\* The parts of the state a specification does not use stay as they are here.
StreamIdle ==
    /\ status = "OPEN"
    /\ index = 0
    /\ acc = NewFunctionCallsContent
    /\ out = <<>>
    /\ events = <<>>

AccIdle ==
    /\ function_calls_content = NewFunctionCallsContent
    /\ deltas = <<>>
    /\ before = NewFunctionCallsContent
    /\ ret = ""

TwoIdle == streams = <<>>

NonIdle ==
    /\ responses = <<>>
    /\ extracted = <<>>

PayIdle ==
    /\ request = <<>>
    /\ payload = Null

CollIdle ==
    /\ store = <<>>
    /\ last = <<>>
    /\ nops = 0

RestIdle ==
    /\ NonIdle
    /\ PayIdle
    /\ CollIdle

FinIdle ==
    /\ data = EmptyDict
    /\ chunk_data = EmptyDict
    /\ results = <<>>

Cur == [status |-> status, index |-> index, acc |-> acc, out |-> out, events |-> events]

StreamIs(s) ==
    /\ status = s.status
    /\ index = s.index
    /\ acc = s.acc
    /\ out = s.out
    /\ events = s.events

\* ------------------------------------------------- one stream, one adapter
Init ==
    /\ adapter = NewAdapter
    /\ RestIdle
    /\ StreamIs(NewStream)
    /\ AccIdle
    /\ TwoIdle
    /\ FinIdle

\* The engine consumes the next event of the source.
Receive(id) ==
    /\ status = "OPEN"
    /\ Len(events) < MaxEvents
    /\ LET r == DriverStep(adapter, Cur, id, EventTable[id].ev)
       IN  /\ adapter' = r.adapter
           /\ status' = r.s.status
           /\ index' = r.s.index
           /\ acc' = r.s.acc
           /\ out' = r.s.out
           /\ events' = r.s.events
    /\ UNCHANGED <<accVars, twoVars, finVars, restVars>>

\* The source is exhausted.
Exhaust ==
    /\ status = "OPEN"
    /\ LET s == DriverEnd(Cur)
       IN  /\ status' = s.status
           /\ index' = s.index
           /\ acc' = s.acc
           /\ out' = s.out
           /\ events' = s.events
    /\ UNCHANGED <<adapter, accVars, twoVars, finVars, restVars>>

Next ==
    \/ \E id \in EventNames : Receive(id)
    \/ Exhaust

Spec == Init /\ [][Next]_vars

\* ------------------------------------------------ properties of one stream
RECURSIVE Concat(_)
Concat(strs) == IF strs = <<>> THEN "" ELSE Head(strs) \o Concat(Tail(strs))

IsText(c) == c.kind = "text"

TextChunks == SelectSeq(out, IsText)

Last(q) == q[Len(q)]

\* C1: the indices of the emitted text chunks are strictly increasing, each
\* is the number of text chunks emitted before it, the index counter equals
\* the number of text chunks emitted so far, and an event that carries no
\* non-empty text delta leaves the index counter as it was.
C1_IndexCountsTextChunks ==
    /\ [](/\ index = Len(TextChunks)
          /\ \A i \in 1..Len(TextChunks) :
                /\ TextChunks[i].index = i - 1
                /\ TextChunks[i].delta # ""
                /\ \A j \in 1..Len(TextChunks) :
                      i < j => TextChunks[i].index < TextChunks[j].index)
    /\ [][\A id \in EventNames :
            (events' = Append(events, id) /\ EventTable[id].text = "")
                => (index' = index /\ SelectSeq(out', IsText) = TextChunks)]_vars

C1_Witness ==
    /\ events = <<"text_Hel", "heartbeat", "text_lo">>
    /\ index = 2
    /\ Len(out) = 2

\* C4: a closed stream's output ends with its only chunk that carries a finish
\* reason, the reason is a member of the closed enumeration, a stream that
\* is open or has failed has emitted no such chunk, and nothing happens to a
\* stream that is closed or has failed.
C4_OneTerminalChunk ==
    /\ [](/\ status = "CLOSED" =>
                /\ Len(out) > 0
                /\ Last(out).kind = "terminal"
                /\ Last(out).finish_reason \in ChatCompletionFinishReason
                /\ \A i \in 1..(Len(out) - 1) : out[i].kind = "text"
          /\ status # "CLOSED" => \A i \in 1..Len(out) : out[i].kind = "text")
    /\ [][status = "OPEN"]_vars

C4_Witness ==
    /\ status = "CLOSED"
    /\ events = <<"text_Hel", "call0_open">>
    /\ Len(out) = 2
    /\ Last(out).finish_reason = "unknown"

\* C5: an event that carries an upstream error payload fails the stream, emits
\* no chunk, changes neither the index counter nor the accumulator, and is
\* the last event the stream consumes.
C5_ErrorFailsBeforeExtraction ==
    /\ [](\A j \in 1..Len(events) :
            EventTable[events[j]].error => (j = Len(events) /\ status = "FAILED"))
    /\ [][\A id \in EventNames :
            (events' = Append(events, id) /\ EventTable[id].error)
                => (status' = "FAILED" /\ out' = out /\ index' = index /\ acc' = acc)]_vars

C5_Witness ==
    /\ status = "FAILED"
    /\ events = <<"text_lo", "call1_open", "error_full">>
    /\ Len(out) = 1
    /\ acc.index = 1

\* The text deltas that arrived, concatenated in arrival order.
RECURSIVE InText(_)
InText(evs) == IF evs = <<>> THEN "" ELSE EventTable[Head(evs)].text \o InText(Tail(evs))

\* The tool-call entries that arrived, in arrival order.
RECURSIVE InCalls(_)
InCalls(evs) == IF evs = <<>> THEN <<>> ELSE EventTable[Head(evs)].calls \o InCalls(Tail(evs))

\* The fragments of the entries whose index is not lower than the highest
\* index before them, concatenated in arrival order.
RECURSIVE InFrags(_, _)
InFrags(calls, current) ==
    IF calls = <<>> THEN ""
    ELSE IF Head(calls).index < current THEN InFrags(Tail(calls), current)
    ELSE Head(calls).frag \o InFrags(Tail(calls), Head(calls).index)

OutArgs(fcc) == Concat([i \in 1..Len(Finalize(fcc)) |-> Finalize(fcc)[i].arguments])

\* C7: when a stream has closed, the emitted text deltas concatenated equal the
\* incoming text deltas concatenated, and the finalized argument strings hold
\* every fragment of every incoming tool-call entry of non-decreasing index
\* exactly once, in arrival order.
C7_NoContentLost ==
    status = "CLOSED" =>
        /\ Concat([i \in 1..Len(TextChunks) |-> TextChunks[i].delta]) = InText(events)
        /\ OutArgs(acc) = InFrags(InCalls(events), -1)

\* C8: a stream fails only on an event that carries an upstream error
\* payload; an event that lacks fields never fails it.
C8_MalformedNeverEscalates ==
    status = "FAILED" => EventTable[Last(events)].error

\* C10: the stream of text "Hel", text "lo" and finish reason "max_token" has
\* emitted exactly the text chunk "Hel" at index 0, the text chunk "lo" at
\* index 1 and one terminal chunk with finish reason length, and is closed.
C10_HelloScenario ==
    events = <<"text_Hel", "text_lo", "fin_max_token">> =>
        /\ status = "CLOSED"
        /\ out = <<ChatCompletionChunk(0, "Hel"), ChatCompletionChunk(1, "lo"),
                   [kind |-> "terminal", finish_reason |-> "length", function_calls |-> <<>>]>>

C10_Witness ==
    /\ events = <<"text_Hel", "text_lo", "fin_max_token">>
    /\ Len(out) = 3

\* ------------------------------- stream_handle_function_calls on its own
\* A chunk record with one tool-call entry.
DeltaRecord(idx, name, arguments) ==
    Dict([delta |-> Dict([tool_calls |-> List(<<ToolCall(idx, name, arguments)>>)])])

\* What a chunk record is, next to the record itself: tool whether it carries
\* a tool-call entry with an index and a string fragment, and then its index
\* and its fragment.
DeltaShape(rec, tool, idx, frag) == [rec |-> rec, tool |-> tool, index |-> idx, frag |-> frag]

DeltaTable ==
    [d0_a |-> DeltaShape(DeltaRecord(0, Str("f"), Str("a")), TRUE, 0, "a"),
     d0_b |-> DeltaShape(DeltaRecord(0, Null, Str("b")), TRUE, 0, "b"),
     d1_b |-> DeltaShape(DeltaRecord(1, Null, Str("b")), TRUE, 1, "b"),
     d1_empty |-> DeltaShape(DeltaRecord(1, Str("g"), Str("")), TRUE, 1, ""),
     d2_a |-> DeltaShape(DeltaRecord(2, Str("h"), Str("a")), TRUE, 2, "a"),
     d0_null |-> DeltaShape(DeltaRecord(0, Str("f"), Null), FALSE, 0, ""),
     no_index |->
        DeltaShape(Dict([delta |-> Dict([tool_calls |->
                      List(<<Dict([function |-> Dict([name |-> Str("f"), arguments |-> Str("a")])])>>)])]),
                   FALSE, -1, ""),
     text_only |-> DeltaShape(Dict([delta |-> Dict([content |-> Str("Hel")])]), FALSE, -1, "")]

DeltaNames == DOMAIN DeltaTable

InitAcc ==
    /\ adapter = NewAdapter
    /\ RestIdle
    /\ StreamIdle
    /\ AccIdle
    /\ TwoIdle
    /\ FinIdle

\* stream_handle_function_calls is applied to the accumulator; after an
\* exception nothing more is applied.
HandleDelta(d) ==
    /\ ret \in {"", "None", "acc"}
    /\ Len(deltas) < MaxDeltas
    /\ LET r == stream_handle_function_calls(adapter, DeltaTable[d].rec, function_calls_content)
       IN  /\ function_calls_content' = r.acc
           /\ ret' = IF r.exc = "none" THEN r.ret ELSE r.exc
           /\ adapter' = r.self
    /\ before' = function_calls_content
    /\ deltas' = Append(deltas, d)
    /\ UNCHANGED <<streamVars, twoVars, finVars, restVars>>

NextAcc == \E d \in DeltaNames : HandleDelta(d)

SpecAcc == InitAcc /\ [][NextAcc]_vars

\* The fragments of the applied deltas that carry index k, concatenated in
\* arrival order.
RECURSIVE FragsOf(_, _)
FragsOf(ds, k) ==
    IF ds = <<>> THEN ""
    ELSE (IF DeltaTable[Head(ds)].index = k THEN DeltaTable[Head(ds)].frag ELSE "")
         \o FragsOf(Tail(ds), k)

\* C2: after five tool-call deltas with indices 0,0,1,1,2, each carrying a
\* string fragment, applied in order to a fresh accumulator, no application
\* has raised, the finalized accumulator holds exactly 3 function calls, and
\* the arguments of call k are the fragments with index k concatenated in
\* arrival order.
C2_ThreeCallsConcatenated ==
    (/\ Len(deltas) = 5
     /\ [i \in 1..5 |-> DeltaTable[deltas[i]].index] = <<0, 0, 1, 1, 2>>
     /\ \A i \in 1..5 : DeltaTable[deltas[i]].tool)
        => /\ ret = "acc"
           /\ Len(Finalize(function_calls_content)) = 3
           /\ \A k \in 0..2 :
                 Finalize(function_calls_content)[k + 1].arguments = FragsOf(deltas, k)

C2_Witness ==
    /\ deltas = <<"d0_a", "d0_b", "d1_empty", "d1_b", "d2_a">>
    /\ function_calls_content.arguments_strs = <<"ab", "b", "a">>

\* C3: in every reachable accumulator state, a tool-call delta whose index
\* is lower than the current index leaves the accumulator as it is, applied
\* once or twice; and whenever the last delta applied was such a delta the
\* accumulator is what it was before.
C3_LowerIndexIgnored ==
    /\ \A d \in DeltaNames :
          (DeltaTable[d].tool /\ DeltaTable[d].index < function_calls_content.index) =>
              LET r == stream_handle_function_calls(adapter, DeltaTable[d].rec, function_calls_content)
              IN  /\ r.exc = "none"
                  /\ r.acc = function_calls_content
                  /\ stream_handle_function_calls(adapter, DeltaTable[d].rec, r.acc).acc = r.acc
    /\ (/\ deltas # <<>>
        /\ DeltaTable[Last(deltas)].tool
        /\ DeltaTable[Last(deltas)].index < before.index)
          => function_calls_content = before

C3_Witness ==
    /\ deltas = <<"d0_a", "d2_a", "d1_b">>
    /\ before.index = 2
    /\ function_calls_content = before
    /\ ret = "acc"

\* --------------------------------------------- two streams, one adapter
\* The events the two streams draw from.
TwoNames ==
    {"text_Hel", "text_lo", "call0_open", "call0_more", "fin_tool_calls", "error"}

InitTwo ==
    /\ adapter = NewAdapter
    /\ RestIdle
    /\ streams = [k \in 1..2 |-> NewStream]
    /\ StreamIdle
    /\ AccIdle
    /\ FinIdle

\* Stream k consumes its next event; the other stream is wherever it is.
ReceiveTwo(k, id) ==
    /\ streams[k].status = "OPEN"
    /\ Len(streams[k].events) < MaxEventsTwo
    /\ LET r == DriverStep(adapter, streams[k], id, EventTable[id].ev)
       IN  /\ adapter' = r.adapter
           /\ streams' = [streams EXCEPT ![k] = r.s]
    /\ UNCHANGED <<streamVars, accVars, finVars, restVars>>

\* The source of stream k is exhausted.
ExhaustTwo(k) ==
    /\ streams[k].status = "OPEN"
    /\ streams' = [streams EXCEPT ![k] = DriverEnd(@)]
    /\ UNCHANGED <<adapter, streamVars, accVars, finVars, restVars>>

NextTwo ==
    \/ \E k \in 1..2, id \in TwoNames : ReceiveTwo(k, id)
    \/ \E k \in 1..2 : ExhaustTwo(k)

SpecTwo == InitTwo /\ [][NextTwo]_vars

\* A stream processed alone by an adapter of its own: the state and the
\* adapter after the events evs, from the state s and the adapter a.
RECURSIVE RunAlone(_, _, _)
RunAlone(a, s, evs) ==
    IF evs = <<>> \/ s.status # "OPEN" THEN s
    ELSE LET r == DriverStep(a, s, Head(evs), EventTable[Head(evs)].ev)
         IN  RunAlone(r.adapter, r.s, Tail(evs))

Alone(k) ==
    LET s == RunAlone(NewAdapter, NewStream, streams[k].events)
    IN  IF s.status = "OPEN" /\ streams[k].status = "CLOSED" THEN DriverEnd(s) ELSE s

\* C9: the adapter holds no state, and each of two interleaved streams has
\* the emitted chunks, the index counter, the accumulator and the status it
\* has when its events are processed alone.
C9_StreamsIndependent ==
    /\ adapter = NewAdapter
    /\ \A k \in DOMAIN streams : streams[k] = Alone(k)

C9_Witness ==
    /\ streams[1].events = <<"text_Hel", "call0_open">>
    /\ streams[2].events = <<"text_lo", "text_Hel">>
    /\ streams[1].status = "CLOSED"
    /\ streams[2].index = 2
    /\ streams[1].index = 1

\* ------------------------------------------- finish-reason classification
\* The finish_reason strings tried; the known vendor set is the three
\* function-call synonyms, "max_token" and the names of the enumeration.
ReasonStrings ==
    {"tool_calls", "function_calls", "function_call", "max_token", "stop", "length",
     "content_filter", "unknown", "eos", "STOP", "tool_call", ""}

KnownVendorSet ==
    {"tool_calls", "function_calls", "function_call", "max_token"} \cup ChatCompletionFinishReason

ReasonRecords == {Dict([finish_reason |-> Str(r)]) : r \in ReasonStrings}

InitFin ==
    /\ adapter = NewAdapter
    /\ RestIdle
    /\ data \in ReasonRecords
    /\ chunk_data \in ReasonRecords
    /\ results = <<>>
    /\ StreamIdle
    /\ AccIdle
    /\ TwoIdle

\* Both classifiers are applied to their records.
ClassifyBoth ==
    /\ results = <<>>
    /\ results' = <<extract_finish_reason(data), stream_extract_finish_reason(chunk_data)>>
    /\ UNCHANGED <<adapter, streamVars, accVars, twoVars, data, chunk_data, restVars>>

NextFin == ClassifyBoth

SpecFin == InitFin /\ [][NextFin]_vars

ReasonOf(rec) == rec.v["finish_reason"].v

\* C6 as stated: both classifiers give unknown for every string outside the
\* known vendor set, and function_calls for each of the three synonyms.
C6_ClassificationTotal ==
    results # <<>> =>
        /\ ReasonOf(data) \notin KnownVendorSet => results[1] = "unknown"
        /\ ReasonOf(chunk_data) \notin KnownVendorSet => results[2] = "unknown"
        /\ ReasonOf(data) \in {"tool_calls", "function_calls", "function_call"}
              => results[1] = "function_calls"
        /\ ReasonOf(chunk_data) \in {"tool_calls", "function_calls", "function_call"}
              => results[2] = "function_calls"

\* C6 amended: extract_finish_reason gives unknown for every string outside
\* the known vendor set; stream_extract_finish_reason gives unknown for every
\* non-empty such string and absent for the empty string; both give
\* function_calls for each of the three synonyms and a member of the
\* enumeration or absent in every case.
C6_ClassificationTotalNonEmpty ==
    results # <<>> =>
        /\ results[1] \in ChatCompletionFinishReason
        /\ results[2] \in ChatCompletionFinishReason \cup {""}
        /\ ReasonOf(data) \notin KnownVendorSet => results[1] = "unknown"
        /\ (ReasonOf(chunk_data) \notin KnownVendorSet /\ ReasonOf(chunk_data) # "")
              => results[2] = "unknown"
        /\ ReasonOf(chunk_data) = "" => results[2] = ""
        /\ ReasonOf(data) \in {"tool_calls", "function_calls", "function_call"}
              => results[1] = "function_calls"
        /\ ReasonOf(chunk_data) \in {"tool_calls", "function_calls", "function_call"}
              => results[2] = "function_calls"

C6_Witness ==
    /\ ReasonOf(data) = "function_call"
    /\ ReasonOf(chunk_data) = "eos"
    /\ results = <<"function_calls", "unknown">>

\* ------------------------------------------------- non-stream extraction
MaxResponses == 2

Absent == [t |-> "absent"]

\* A dict of the keys whose value is not Absent.
DictOf(pairs) ==
    Dict([k \in {q[1] : q \in {r \in pairs : r[2] # Absent}} |->
            (CHOOSE q \in pairs : q[1] = k)[2]])

MessageValues ==
    {Absent, Null, EmptyDict,
     Dict([content |-> Str("hi")]),
     Dict([content |-> Str("")]),
     Dict([function_call |-> Dict([name |-> Str("get_weather"), arguments |-> Str("{}")])]),
     Dict([content |-> Str("hi"),
           function_call |-> Dict([name |-> Str("get_weather"), arguments |-> Str("{}")])])}

FinishValues == {Absent, Str("stop"), Str("max_token"), Str("eos"), Str("function_call")}

ChoiceRecords == {DictOf({<<"message", m>>, <<"finish_reason", f>>}) : m \in MessageValues, f \in FinishValues}

\* Responses whose choice list is missing, null or empty.
NoChoiceResponses == {EmptyDict, Dict([choices |-> Null]), Dict([choices |-> List(<<>>)])}

Responses == NoChoiceResponses \cup {Dict([choices |-> List(<<c>>)]) : c \in ChoiceRecords}

InitNon ==
    /\ adapter = NewAdapter
    /\ StreamIdle
    /\ AccIdle
    /\ TwoIdle
    /\ FinIdle
    /\ NonIdle
    /\ PayIdle
    /\ CollIdle

\* One complete vendor response is extracted.
ExtractResponse(r) ==
    /\ Len(responses) < MaxResponses
    /\ responses' = Append(responses, r)
    /\ extracted' = Append(extracted, Extractor(r))
    /\ UNCHANGED <<adapter, streamVars, accVars, twoVars, finVars, payVars, collVars>>

NextNon == \E r \in Responses : ExtractResponse(r)

SpecNon == InitNon /\ [][NextNon]_vars

\* C11: every response whose choice list is missing, null or empty gives the
\* empty unified result: no exception, no text, no function calls, finish
\* reason unknown.
C11_NoChoiceGivesEmptyResult ==
    \A i \in 1..Len(responses) :
        responses[i] \in NoChoiceResponses =>
            /\ extract_core_data(responses[i]) = [exc |-> "none", val |-> Null]
            /\ extracted[i] = EmptyResult

C11_Witness ==
    /\ Len(responses) = 2
    /\ responses[1] = Dict([choices |-> List(<<>>)])
    /\ responses[2] = EmptyDict
    /\ extracted = <<EmptyResult, EmptyResult>>

RecordOf(r) == r.v["choices"].v[1]

\* C16: for every response that has a choice record, extracting the function
\* calls raises nothing, and a record with no message gives no function
\* calls, as it gives no text.
C16_FunctionCallsNeverFail ==
    \A i \in 1..Len(responses) :
        responses[i] \notin NoChoiceResponses =>
            /\ extracted[i].exc = "none"
            /\ ~HasKey(RecordOf(responses[i]), "message") =>
                  (extracted[i].function_calls = Null /\ extracted[i].text = Null)

\* ------------------------------------------- more on the accumulator alone
\* Deltas that carry an index and no argument fragment (null or empty).
NoFragmentDeltas == {"d0_null", "d1_empty"}

\* C12: when every delta applied carries no argument fragment, the first
\* opens index 0 and each later one continues the current index or opens the
\* next, no application has raised and every finalized function call has
\* empty-string arguments, one call per index opened.
C12_NoArgumentCall ==
    (/\ deltas # <<>>
     /\ \A i \in 1..Len(deltas) : deltas[i] \in NoFragmentDeltas
     /\ DeltaTable[deltas[1]].index = 0
     /\ \A i \in 2..Len(deltas) :
           DeltaTable[deltas[i]].index <= DeltaTable[deltas[i - 1]].index + 1) =>
        /\ ret = "acc"
        /\ Len(Finalize(function_calls_content)) =
              Cardinality({DeltaTable[deltas[i]].index : i \in 1..Len(deltas)})
        /\ \A k \in 1..Len(Finalize(function_calls_content)) :
              Finalize(function_calls_content)[k].arguments = ""

\* C15: after tool-call deltas with string fragments and non-decreasing
\* indices, no application has raised, the names and the argument buffers
\* have the same length and the current index is their last position.
C15_AccumulatorWellFormed ==
    (/\ \A i \in 1..Len(deltas) : DeltaTable[deltas[i]].tool
     /\ \A i \in 1..Len(deltas), j \in 1..Len(deltas) :
           i < j => DeltaTable[deltas[i]].index <= DeltaTable[deltas[j]].index)
        => /\ ret \in {"", "acc"}
           /\ Len(function_calls_content.names) = Len(function_calls_content.arguments_strs)
           /\ function_calls_content.index = Len(function_calls_content.arguments_strs) - 1

\* ------------------------------------------------------- prepare_request
\* The configuration options and the values an option is given (None: unset).
ConfigKeys == {"temperature", "max_tokens", "top_p"}

ConfigValues == {Null, Num(0), Num(1)}

GetWeather == [name |-> "get_weather", description |-> "weather of a city", parameters |-> [type |-> Str("object")]]

GetTime == [name |-> "get_time", description |-> "time of a city", parameters |-> [type |-> Str("object")]]

Requests ==
    [stream : BOOLEAN,
     provider_model_id : {"llama-13b-chat"},
     messages : {<<[role |-> "system", content |-> "be brief", id |-> ""],
                   [role |-> "user", content |-> "weather?", id |-> ""],
                   [role |-> "assistant", content |-> "let me look", id |-> ""],
                   [role |-> "function", content |-> "sunny", id |-> "call_1"]>>},
     configs : [ConfigKeys -> ConfigValues],
     function_call : {Null, Str(""), Str("get_weather")},
     functions : {Null, List(<<>>), List(<<GetWeather>>), List(<<GetWeather, GetTime>>)}]

InitPay ==
    /\ adapter = NewAdapter
    /\ request \in Requests
    /\ payload = Null
    /\ StreamIdle
    /\ AccIdle
    /\ TwoIdle
    /\ FinIdle
    /\ NonIdle
    /\ CollIdle

\* prepare_request is called with the request.
PrepareRequest ==
    /\ payload = Null
    /\ payload' = prepare_request(request).payload
    /\ UNCHANGED <<adapter, streamVars, accVars, twoVars, finVars, nonVars, request, collVars>>

NextPay == PrepareRequest

SpecPay == InitPay /\ [][NextPay]_vars

\* C13: in the payload built, an unset option has no key, a set option has
\* its value, no option is sent as null, and messages, model and stream are
\* present.
C13_UnsetOptionsOmitted ==
    payload # Null =>
        /\ {"messages", "model", "stream"} \subseteq DOMAIN payload.v
        /\ \A key \in ConfigKeys :
              /\ request.configs[key] = Null => key \notin DOMAIN payload.v
              /\ request.configs[key] # Null =>
                    (key \in DOMAIN payload.v /\ payload.v[key] = request.configs[key])
        /\ \A key \in DOMAIN payload.v : payload.v[key] # Null

C13_Witness ==
    /\ payload # Null
    /\ request.configs = [temperature |-> Num(0), max_tokens |-> Null, top_p |-> Num(1)]
    /\ DOMAIN payload.v = {"messages", "model", "stream", "temperature", "top_p"}

\* C14: with the directive "get_weather" and the one definition get_weather
\* the payload has function_call = {"name": "get_weather"} and the definition
\* serialized under functions; a directive that is None or empty gives no
\* function_call key, definitions that are None or empty give no functions key.
C14_FunctionCallDirective ==
    payload # Null =>
        /\ (request.function_call = Str("get_weather") /\ request.functions = List(<<GetWeather>>)) =>
              /\ payload.v["function_call"] = Dict([name |-> Str("get_weather")])
              /\ payload.v["functions"] =
                    List(<<Dict([name |-> Str("get_weather"),
                                 description |-> Str("weather of a city"),
                                 parameters |-> Dict([type |-> Str("object")])])>>)
        /\ request.function_call \in {Null, Str("")} => "function_call" \notin DOMAIN payload.v
        /\ request.functions \in {Null, List(<<>>)} => "functions" \notin DOMAIN payload.v

C14_Witness ==
    /\ payload # Null
    /\ request.function_call = Str("get_weather")
    /\ request.functions = List(<<GetWeather>>)
    /\ {"function_call", "functions"} \subseteq DOMAIN payload.v

\* ---------------------------------------------------- collection service
MaxOps == 4

\* An id no collection has.
QueryIds == CollIds \cup {"c9"}

Cursors == {Null, Str("")} \cup {Str(id) : id \in QueryIds}

NameValues == {Null, Str(""), Str("n2")}

DescriptionValues == {Null, Str(""), Str("d2")}

MetadataValues == {Null, EmptyDict, Dict([k |-> Str("v")])}

NoCall == [op |-> "none"]

Called(op, args, was, r) ==
    [op |-> op, args |-> args, was |-> was, exc |-> r.exc, val |-> r.val, calls |-> r.calls]

InitColl ==
    /\ adapter = NewAdapter
    /\ store = EmptyStore
    /\ last = NoCall
    /\ nops = 0
    /\ StreamIdle
    /\ AccIdle
    /\ TwoIdle
    /\ FinIdle
    /\ NonIdle
    /\ PayIdle

Serve(op, args, r) ==
    /\ nops < MaxOps
    /\ store' = r.db
    /\ last' = Called(op, args, store, r)
    /\ nops' = nops + 1
    /\ UNCHANGED <<adapter, streamVars, accVars, twoVars, finVars, nonVars, payVars>>

GetCollection ==
    \E id \in QueryIds :
        Serve("get", [id |-> id], get_collection(store, id))

DeleteCollection ==
    \E id \in QueryIds :
        Serve("delete", [id |-> id], delete_collection(store, id))

UpdateCollection ==
    \E id \in QueryIds, n \in NameValues, d \in DescriptionValues, m \in MetadataValues :
        Serve("update", [id |-> id, name |-> n, description |-> d, metadata |-> m],
              update_collection(store, id, n, d, m))

\* The store layer has an id left to hand out.
CreateCollection ==
    /\ DOMAIN store # CollIds
    /\ \E model_id \in DOMAIN ModelTable :
          Serve("create", [embedding_model_id |-> model_id],
                create_collection(store, Str("n1"), Str("d1"), Num(1000), model_id,
                                  Dict([type |-> Str("token")]), EmptyDict))

ListCollections ==
    \E a \in Cursors, b \in Cursors :
        Serve("list", [after |-> a, before |-> b], list_collections(store, a, b))

NextColl ==
    \/ GetCollection
    \/ DeleteCollection
    \/ UpdateCollection
    \/ CreateCollection
    \/ ListCollections

SpecColl == InitColl /\ [][NextColl]_vars

\* The store-layer calls that change the store or list it.
BeyondGet == {"update_collection", "delete_collection", "list_collections"}

\* The last call named an id, or a cursor, that the store did not have.
NamedMissing ==
    \/ /\ last.op \in {"get", "update", "delete"}
       /\ last.args.id \notin DOMAIN last.was
    \/ /\ last.op = "list"
       /\ \/ last.args.after \notin {Null, Str("")} /\ last.args.after.v \notin DOMAIN last.was
          \/ last.args.before \notin {Null, Str("")} /\ last.args.before.v \notin DOMAIN last.was

\* C17: get, update and delete of an id not in the store, and a listing with
\* an after or before cursor not in the store, fail with OBJECT_NOT_FOUND,
\* leave the store as it was and make no update, delete or list call.
C17_MissingIdNotFound ==
    NamedMissing =>
        /\ last.exc = "OBJECT_NOT_FOUND"
        /\ store = last.was
        /\ \A i \in 1..Len(last.calls) : last.calls[i] \notin BeyondGet

C17_Witness ==
    /\ last.op = "list"
    /\ last.args.after = Str("c1")
    /\ last.args.before = Str("c9")
    /\ "c1" \in DOMAIN last.was
    /\ last.exc = "OBJECT_NOT_FOUND"

\* The model is a text-embedding model with an embedding size that is there
\* and not zero.
Embeds(model_id) ==
    /\ ModelTable[model_id].type = "TEXT_EMBEDDING"
    /\ "embedding_size" \in DOMAIN ModelTable[model_id].properties.v
    /\ ModelTable[model_id].properties.v["embedding_size"] \notin {Null, Num(0)}

\* C18: create_collection adds one collection when the model is a
\* text-embedding model with a non-empty, non-zero embedding size, and fails
\* with REQUEST_VALIDATION_ERROR leaving the store unchanged otherwise; every
\* stored collection has the embedding size of its model.
C18_CreateNeedsEmbeddingModel ==
    /\ last.op = "create" =>
          IF Embeds(last.args.embedding_model_id)
          THEN /\ last.exc = "none"
               /\ Cardinality(DOMAIN store) = Cardinality(DOMAIN last.was) + 1
               /\ \A id \in DOMAIN last.was : id \in DOMAIN store /\ store[id] = last.was[id]
               /\ \A id \in DOMAIN store \ DOMAIN last.was :
                     store[id].embedding_model_id = last.args.embedding_model_id
          ELSE /\ last.exc = "REQUEST_VALIDATION_ERROR"
               /\ store = last.was
    /\ \A id \in DOMAIN store :
          /\ Embeds(store[id].embedding_model_id)
          /\ store[id].embedding_size =
                ModelTable[store[id].embedding_model_id].properties.v["embedding_size"]

C18_Witness ==
    /\ last.op = "create"
    /\ last.args.embedding_model_id = "m_embed_wide"
    /\ last.exc = "none"
    /\ \E id \in DOMAIN store : store[id].embedding_size = Num(7)
    /\ \E id \in DOMAIN store : store[id].embedding_size = Num(3)

UpdatableFields == {"name", "description", "metadata"}

\* The value was given and is not empty.
Given(value) == value \notin {Null, Str(""), EmptyDict}

\* C19: update_collection of a stored collection sets exactly the fields
\* among name, description and metadata given with a non-empty value, leaves
\* the other fields and the other collections as they were, and with nothing
\* given makes no update call and returns the stored collection.
C19_UpdateChangesGivenFields ==
    (last.op = "update" /\ last.args.id \in DOMAIN last.was) =>
        /\ last.exc = "none"
        /\ DOMAIN store = DOMAIN last.was
        /\ \A id \in DOMAIN store \ {last.args.id} : store[id] = last.was[id]
        /\ \A f \in DOMAIN store[last.args.id] :
              store[last.args.id][f] =
                 IF f \in UpdatableFields /\ Given(last.args[f])
                 THEN last.args[f]
                 ELSE last.was[last.args.id][f]
        /\ last.val = store[last.args.id]
        /\ (\A f \in UpdatableFields : ~Given(last.args[f])) =>
              /\ \A i \in 1..Len(last.calls) : last.calls[i] # "update_collection"
              /\ last.val = last.was[last.args.id]

C19_Witness ==
    /\ last.op = "update"
    /\ last.args.id = "c1"
    /\ Cardinality(DOMAIN last.was) = 2
    /\ last.args.name = Str("n2")
    /\ last.args.description = Str("")
    /\ last.args.metadata = Null
    /\ store["c1"].name = Str("n2")
    /\ store["c1"].description = Str("d1")
====
